---- MODULE Spec2Model ----
(***************************************************************************)
(* Model of the organize/undo transaction engine of SimpleFileOrganizer    *)
(* (src/file_organizer.py): one target directory, the files directly in    *)
(* it, its category folders, the undo-log sidecar and one organizer        *)
(* object with its in-memory statistics and undo list.                     *)
(*                                                                         *)
(* organize_files and undo_organization are modelled as a begin step (the  *)
(* code before the per-file loop), one step per loop iteration and an end  *)
(* step (the code after the loop).  The environment adds and deletes       *)
(* files, or removes the directory, only while no call is running.         *)
(***************************************************************************)
EXTENDS Integers, Sequences, FiniteSets, TLC

VARIABLES
    target_exists,     \* self.target_directory.exists()
    files,             \* the regular files under the target: path -> file id
    dirs,              \* names of the sub-folders of the target directory
    sidecar,           \* the file .file_organizer_undo.json
    arrived,           \* environment: file ids that were ever put in the directory
    stats,             \* self.stats
    undo_data,         \* self.undo_data
    suspicious_files,  \* self.suspicious_files
    duplicate_files,   \* self.duplicate_files
    undo_stats,        \* local undo_stats of undo_organization
    pc,                \* "idle", "organize" / "undo" (in the loop), "return" (at a return)
    dry_run,           \* argument dry_run of the running call
    organization_type, \* argument organization_type of the running organize_files
    queue,             \* the sorted list `files` the loop of organize_files walks
    idx,               \* loop position (1-based) of the running call
    result,            \* return value of the last call: "none", "true", "false"
    op,                \* the last call started: "none", "organize", "undo"
    calls,             \* number of calls started so far
    faults,            \* environment: number of I/O errors raised so far
    changes,           \* environment: number of files added or deleted so far
    run_log,           \* history: physical moves done by the current / last organize_files
    trip,              \* history: progress of an organize-then-undo pair
    custom_db,         \* the rows (name, extensions) of the table custom_categories
    file_categories,   \* self.file_categories, in dictionary order
    stops              \* GUI: the stop requests made while a worker was running

vars == <<target_exists, files, dirs, sidecar, arrived, stats, undo_data,
          suspicious_files, duplicate_files, undo_stats, pc, dry_run,
          organization_type, queue, idx, result, op, calls, faults, changes,
          run_log, trip, custom_db, file_categories, stops>>

fsvars == <<target_exists, files, dirs, sidecar>>

----------------------------------------------------------------------------
(* Bounds *)

NFiles == 4
MaxCalls == 3
MaxFaults == 1
MaxChanges == 1
NDupFiles == 6

FileIds == 1..NFiles

----------------------------------------------------------------------------
(* Names and paths.  A file name is its stem and its extension             *)
(* (pathlib's Path.stem / Path.suffix); the stem is a base string followed *)
(* by the "_N" groups appended to it, so "a_1_2.txt" is base "a",          *)
(* sfx <<1, 2>>, ext ".txt".                                               *)

ROOT == "."

MkName(b, s, e) == [base |-> b, sfx |-> s, ext |-> e]

MkPath(d, n) == [dir |-> d, name |-> n]

RootPath(n) == MkPath(ROOT, n)

(* The files of the environment: name, size in bytes, age of the           *)
(* modification time in days when it is classified, its year, whether      *)
(* stat() succeeds, content hash (NoHash when the file cannot be read),    *)
(* and the rank of the lower-cased name in string order (".h.txt" <        *)
(* "a.bat" < "a.txt" < "a_1.txt" < "b.jpg" < "b.txt" < "c.deb" < "d.txt"   *)
(* < "e.xyz" < "f" < "g.rpm" < "h.txt" < "i.jpg").                         *)
NoHash == 0

File(n, size, age, year, stat_ok, hash, name_key) ==
    [name |-> n, size |-> size, age |-> age, year |-> year, stat_ok |-> stat_ok,
     hash |-> hash, name_key |-> name_key]

FileTable ==
    << File(MkName("a", <<>>, ".txt"),   100,       3,   "2026", TRUE,  1, 2),
       File(MkName("a", <<>>, ".txt"),   2097152,   400, "2025", TRUE,  2, 2),
       File(MkName("a", <<1>>, ".txt"),  100,       20,  "2026", TRUE,  1, 3),
       File(MkName("a", <<>>, ".bat"),   100,       3,   "2026", TRUE,  1, 1),
       File(MkName(".h", <<>>, ".txt"),  100,       3,   "2026", TRUE,  NoHash, 0),
       File(MkName("b", <<>>, ".txt"),   100,       3,   "2026", TRUE,  NoHash, 5),
       File(MkName("b", <<>>, ".jpg"),   1048575,   7,   "2026", TRUE,  3, 4),
       File(MkName("c", <<>>, ".deb"),   1048576,   30,  "2026", TRUE,  4, 6),
       File(MkName("d", <<>>, ".TXT"),   10485759,  365, "2025", TRUE,  5, 7),
       File(MkName("e", <<>>, ".xyz"),   10485760,  366, "2025", TRUE,  6, 8),
       File(MkName("f", <<>>, ""),       104857599, 29,  "2026", TRUE,  7, 9),
       File(MkName("g", <<>>, ".rpm"),   104857600, 364, "2025", TRUE,  8, 10),
       File(MkName("h", <<>>, ".txt"),   100,       3,   "2026", FALSE, 9, 11),
       File(MkName("i", <<>>, ".JPG"),   0,         6,   "2026", TRUE,  10, 12),
       File(MkName("j", <<>>, ".jpg"),   1024,      8,   "2026", TRUE,  11, 13),
       File(MkName("k", <<>>, ".txt"),   2048,      31,  "2026", TRUE,  12, 14) >>

Attr(f) == FileTable[((f - 1) % Len(FileTable)) + 1]

NameOf(f) == Attr(f).name

(* f.name.startswith('.') *)
HiddenBases == {".h"}

IsHidden(n) == n.base \in HiddenBases

(* str.lower() on an extension *)
Lower(ext) ==
    CASE ext = ".TXT" -> ".txt"
      [] ext = ".JPG" -> ".jpg"
      [] OTHER -> ext

(* the hidden files of the table, and every file a directory can hold *)
HiddenFileIds == {f \in 1..Len(FileTable) : IsHidden(NameOf(f))}

AllFileIds == FileIds \cup HiddenFileIds

----------------------------------------------------------------------------
(* Sequence helpers *)

Range(s) == {s[i] : i \in 1..Len(s)}

RECURSIVE Concat(_)
Concat(ss) == IF ss = <<>> THEN <<>> ELSE Head(ss) \o Concat(Tail(ss))

Perms(S) == {s \in [1..Cardinality(S) -> S] : \A i, j \in 1..Cardinality(S) : s[i] = s[j] => i = j}

----------------------------------------------------------------------------
(* __init__: the built-in category table, in dictionary order *)

default_categories ==
    << [name |-> "Documents",   exts |-> {".pdf", ".doc", ".docx", ".txt", ".rtf", ".xls", ".xlsx", ".ppt", ".pptx", ".csv", ".odt", ".ods"}],
       [name |-> "Images",      exts |-> {".jpg", ".jpeg", ".png", ".gif", ".bmp", ".tiff", ".svg", ".webp", ".ico", ".raw", ".psd"}],
       [name |-> "Videos",      exts |-> {".mp4", ".avi", ".mkv", ".mov", ".wmv", ".flv", ".webm", ".mpg", ".mpeg", ".m4v", ".3gp"}],
       [name |-> "Audio",       exts |-> {".mp3", ".wav", ".flac", ".aac", ".ogg", ".wma", ".m4a", ".opus", ".aiff"}],
       [name |-> "Archives",    exts |-> {".zip", ".rar", ".7z", ".tar", ".gz", ".bz2", ".xz", ".cab", ".deb", ".rpm"}],
       [name |-> "Code",        exts |-> {".py", ".js", ".html", ".css", ".java", ".cpp", ".c", ".php", ".rb", ".go", ".rs", ".ts", ".jsx", ".vue"}],
       [name |-> "Executables", exts |-> {".exe", ".msi", ".deb", ".rpm", ".dmg", ".pkg", ".app", ".run"}],
       [name |-> "Fonts",       exts |-> {".ttf", ".otf", ".woff", ".woff2", ".eot"}],
       [name |-> "Data",        exts |-> {".json", ".xml", ".yaml", ".yml", ".sql", ".db", ".sqlite"}] >>

(* extensions_str = ','.join(sorted(extensions)) written by                *)
(* save_custom_category and set(ext.strip() for ext in                     *)
(* extensions_str.split(',')) read back by load_custom_categories: a set   *)
(* of extensions without commas and blanks comes back as it was, except    *)
(* the empty set, which comes back as the set of the empty string.         *)
StoredExtensions(exts) == IF exts = {} THEN {""} ELSE exts

(* categories[name] = extensions on a dictionary: the entry of an existing *)
(* key is replaced in place, a new key goes to the end                      *)
SetCategory(table, name, exts) ==
    IF \E i \in 1..Len(table) : table[i].name = name
    THEN [i \in 1..Len(table) |->
            IF table[i].name = name THEN [name |-> name, exts |-> exts] ELSE table[i]]
    ELSE Append(table, [name |-> name, exts |-> exts])

RECURSIVE LoadRows(_, _)
LoadRows(table, rows) ==
    IF rows = <<>> THEN table
    ELSE LoadRows(SetCategory(table, Head(rows).name, Head(rows).exts), Tail(rows))

(* load_custom_categories: a copy of the built-in table with every row of  *)
(* custom_categories put into it                                            *)
load_custom_categories(db) == LoadRows(default_categories, db)

EmptyStats == [moved |-> 0, errors |-> 0, suspicious |-> 0, duplicates |-> 0, space_saved |-> 0]

----------------------------------------------------------------------------
(* detect_suspicious_file.  The regular expressions are applied to the     *)
(* lower-cased file name with re.match (anchored at the start); on a       *)
(* structured name each pattern is the condition below.  The base strings  *)
(* that have the shape a pattern looks for are listed in the sets.         *)

ExeStemBases == {"a.exe", "lib.dll"}          \* stems that end in ".exe" / ".dll"

HexBases == {"deadbeef", "0123456789abcdef"}  \* [a-f0-9]{8,}

TrailingSpaceBases == {"a "}                  \* stems that end in white space

SystemBases == {"system32", "windows"}        \* names that start with system32 / windows

TempBases == {"temp", "temp1"}                \* names that start with temp

suspicious_patterns(n) ==
    \/ Lower(n.ext) \in {".bat", ".cmd", ".scr", ".pif", ".com", ".vbs", ".ws", ".jar"}
    \/ n.base \in ExeStemBases /\ n.sfx = <<>> /\ n.ext # ""
    \/ n.base \in HexBases /\ n.sfx = <<>> /\ n.ext = ""
    \/ n.base \in TrailingSpaceBases /\ n.sfx = <<>> /\ Lower(n.ext) \in {".exe", ".bat", ".cmd", ".scr"}
    \/ n.base \in SystemBases
    \/ n.base \in TempBases /\ Lower(n.ext) \in {".exe", ".dll", ".bat", ".cmd"}

detect_suspicious_file(n, size) ==
    \/ suspicious_patterns(n)
    \/ Lower(n.ext) \in {".exe", ".com", ".bat", ".cmd", ".scr"} /\ size < 1024
    \/ IsHidden(n) /\ Lower(n.ext) \in {".exe", ".bat", ".cmd", ".sh"}

IsSuspicious(f) == detect_suspicious_file(NameOf(f), Attr(f).size)

----------------------------------------------------------------------------
(* get_file_category *)

(* mutant of TypeCategory: the last category that lists the extension *)
RECURSIVE TypeCategory_LastMatch(_, _)
TypeCategory_LastMatch(table, ext) ==
    IF table = <<>> THEN "Others"
    ELSE IF ext \in table[Len(table)].exts THEN table[Len(table)].name
    ELSE TypeCategory_LastMatch(SubSeq(table, 1, Len(table) - 1), ext)

(* lines 526-531: the dict is iterated in insertion order *)
RECURSIVE TypeCategory(_, _)
TypeCategory(table, ext) ==
    IF table = <<>> THEN "Others"
    ELSE IF ext \in Head(table).exts THEN Head(table).name
    ELSE TypeCategory(Tail(table), ext)

(* mutant of DateCategory: the comparisons are strict *)
DateCategory_Strict(age, year) ==
    IF age < 7 THEN "This Week"
    ELSE IF age < 30 THEN "This Month"
    ELSE IF age < 365 THEN "This Year"
    ELSE year

(* lines 535-543: mod_time >= now - timedelta(days=N)  <=>  age <= N days *)
DateCategory(age, year) ==
    IF age <= 7 THEN "This Week"
    ELSE IF age <= 30 THEN "This Month"
    ELSE IF age <= 365 THEN "This Year"
    ELSE year

(* mutant of SizeCategory: the bands are closed at their upper end *)
SizeCategory_Inclusive(size) ==
    IF size <= 1024 * 1024 THEN "Small (< 1MB)"
    ELSE IF size <= 10 * 1024 * 1024 THEN "Medium (1-10MB)"
    ELSE IF size <= 100 * 1024 * 1024 THEN "Large (10-100MB)"
    ELSE "Very Large (> 100MB)"

(* lines 549-557 *)
SizeCategory(size) ==
    IF size < 1024 * 1024 THEN "Small (< 1MB)"
    ELSE IF size < 10 * 1024 * 1024 THEN "Medium (1-10MB)"
    ELSE IF size < 100 * 1024 * 1024 THEN "Large (10-100MB)"
    ELSE "Very Large (> 100MB)"

(* ext[1:] if ext else "No Extension"; the extensions of the file table *)
ExtensionCategory(ext) ==
    CASE ext = "" -> "No Extension"
      [] ext = ".txt" -> "txt"
      [] ext = ".bat" -> "bat"
      [] ext = ".jpg" -> "jpg"
      [] ext = ".deb" -> "deb"
      [] ext = ".rpm" -> "rpm"
      [] ext = ".xyz" -> "xyz"
      [] ext = ".TXT" -> "TXT"
      [] ext = ".JPG" -> "JPG"
      [] OTHER -> "ext"

OrgTypes == {"type", "date", "size", "extension"}

(* mutant of get_file_category: a failing stat() is not caught *)
get_file_category_NoExcept(f, otype) ==
    CASE otype = "type" -> TypeCategory(file_categories, Lower(NameOf(f).ext))
      [] otype = "date" -> IF Attr(f).stat_ok THEN DateCategory(Attr(f).age, Attr(f).year)
                                              ELSE "raised"
      [] otype = "size" -> IF Attr(f).stat_ok THEN SizeCategory(Attr(f).size)
                                              ELSE "raised"
      [] otype = "extension" -> ExtensionCategory(Lower(NameOf(f).ext))
      [] OTHER -> "Others"

(* lines 524-565; file_path.stat() raising is caught by the bare except of *)
(* the date and of the size branch                                          *)
get_file_category(f, otype) ==
    CASE otype = "type" -> TypeCategory(file_categories, Lower(NameOf(f).ext))
      [] otype = "date" -> IF Attr(f).stat_ok THEN DateCategory(Attr(f).age, Attr(f).year)
                                              ELSE "Unknown Date"
      [] otype = "size" -> IF Attr(f).stat_ok THEN SizeCategory(Attr(f).size)
                                              ELSE "Unknown Size"
      [] otype = "extension" -> ExtensionCategory(Lower(NameOf(f).ext))
      [] OTHER -> "Others"

----------------------------------------------------------------------------
(* find_duplicates: hash_to_files keeps the hashes in the order of their   *)
(* first file and the files of a hash in scan order; the duplicates are    *)
(* the files after the first of each group of more than one.               *)

(* calculate_file_hash: the digest, or None when reading raises *)
calculate_file_hash(f) == Attr(f).hash

(* lines 238-240: only a file with a hash enters hash_to_files *)
Hashed(scan) == SelectSeq(scan, LAMBDA f : calculate_file_hash(f) # NoHash)

RECURSIVE HashOrder(_, _)
HashOrder(scan, seen) ==
    IF scan = <<>> THEN <<>>
    ELSE IF calculate_file_hash(Head(scan)) \in seen THEN HashOrder(Tail(scan), seen)
    ELSE <<calculate_file_hash(Head(scan))>>
            \o HashOrder(Tail(scan), seen \cup {calculate_file_hash(Head(scan))})

HashGroup(scan, h) == SelectSeq(scan, LAMBDA f : calculate_file_hash(f) = h)

(* mutant of GroupDuplicates: the last file of a group is kept *)
GroupDuplicates_KeepLast(file_list) ==
    IF Len(file_list) > 1 THEN SubSeq(file_list, 1, Len(file_list) - 1) ELSE <<>>

(* lines 247-249: duplicates.extend(file_list[1:]) *)
GroupDuplicates(file_list) == IF Len(file_list) > 1 THEN Tail(file_list) ELSE <<>>

find_duplicates(scan) ==
    LET hashed == Hashed(scan)
        hs     == HashOrder(hashed, {})
    IN  Concat([i \in 1..Len(hs) |-> GroupDuplicates(HashGroup(hashed, hs[i]))])

RECURSIVE SumSizes(_)
SumSizes(fl) == IF fl = <<>> THEN 0 ELSE Attr(Head(fl)).size + SumSizes(Tail(fl))

(* lines 251-261: what find_duplicates leaves in self.stats *)
StatsAfterFindDuplicates(st, dups) ==
    [st EXCEPT !.duplicates = Len(dups), !.space_saved = @ + SumSizes(dups)]

----------------------------------------------------------------------------
(* _sort_files: sorted(files, key=key_func, reverse=reverse) is stable,    *)
(* also with reverse=True.                                                 *)

SortKeys == {"name", "date", "size"}

SortOrders == {"asc", "desc"}

(* st_mtime grows as the age shrinks *)
SortKey(f, sort_by) ==
    CASE sort_by = "date" -> 0 - Attr(f).age
      [] sort_by = "size" -> Attr(f).size
      [] OTHER -> Attr(f).name_key

Precedes(a, b, reverse) == IF reverse THEN a > b ELSE a < b

RECURSIVE InsertSorted(_, _, _, _)
InsertSorted(s, x, sort_by, reverse) ==
    IF s = <<>> THEN <<x>>
    ELSE IF Precedes(SortKey(x, sort_by), SortKey(Head(s), sort_by), reverse)
         THEN <<x>> \o s
         ELSE <<Head(s)>> \o InsertSorted(Tail(s), x, sort_by, reverse)

RECURSIVE SortFrom(_, _, _, _)
SortFrom(done, rest, sort_by, reverse) ==
    IF rest = <<>> THEN done
    ELSE SortFrom(InsertSorted(done, Head(rest), sort_by, reverse), Tail(rest), sort_by, reverse)

sort_files(fl, sort_by, sort_order) == SortFrom(<<>>, fl, sort_by, sort_order = "desc")

----------------------------------------------------------------------------
(* create_folders: the folders made before the loop *)

TableNames(table) == {table[i].name : i \in 1..Len(table)}

create_folders(otype) ==
    CASE otype = "type" -> TableNames(file_categories) \cup {"Others", "Suspicious"}
      [] otype = "date" -> {"This Week", "This Month", "This Year", "Older", "Unknown Date", "Suspicious"}
      [] otype = "size" -> {"Small (< 1MB)", "Medium (1-10MB)", "Large (10-100MB)", "Very Large (> 100MB)", "Unknown Size", "Suspicious"}
      [] otype = "extension" -> {"Suspicious"}

(* mutant of FoldersBeforeLoop: the folders are made in a dry run too *)
FoldersBeforeLoop_IgnoreDryRun(ds, dry, otype, dups) ==
    ds \cup create_folders(otype) \cup (IF dups # <<>> THEN {"Duplicates"} ELSE {})

(* lines 696-699: folders exist after the call when it is not a dry run *)
FoldersBeforeLoop(ds, dry, otype, dups) ==
    IF dry THEN ds
    ELSE ds \cup create_folders(otype) \cup (IF dups # <<>> THEN {"Duplicates"} ELSE {})

----------------------------------------------------------------------------
(* The file system *)

Exists(fs, p) == p \in DOMAIN fs

(* shutil.move of a regular file: the file leaves src and is at dst; a     *)
(* file that was at dst is replaced (os.rename semantics).                 *)
MoveFile(fs, src, dst) ==
    [p \in (DOMAIN fs \ {src}) \cup {dst} |-> IF p = dst THEN fs[src] ELSE fs[p]]

(* f"{original_dest.stem}_{counter}{original_dest.suffix}" *)
WithCounter(p, counter) ==
    MkPath(p.dir, MkName(p.name.base, Append(p.name.sfx, counter), p.name.ext))

(* mutant of NextFree: the suffixed name is taken without looking *)
NextFree_OneTry(fs, original_dest, counter) == WithCounter(original_dest, counter)

(* lines 745-748: the loop goes on until the name is free *)
RECURSIVE NextFree(_, _, _)
NextFree(fs, original_dest, counter) ==
    IF Exists(fs, WithCounter(original_dest, counter))
    THEN NextFree(fs, original_dest, counter + 1)
    ELSE WithCounter(original_dest, counter)

(* mutant of ResolveDestination: the destination is not checked *)
ResolveDestination_NoCheck(fs, destination) == destination

(* mutant of ResolveDestination: the counter starts at 2 *)
ResolveDestination_FromTwo(fs, destination) ==
    IF Exists(fs, destination) THEN NextFree(fs, destination, 2) ELSE destination

(* lines 742-748: counter = 1; while destination.exists(): ... *)
ResolveDestination(fs, destination) ==
    IF Exists(fs, destination) THEN NextFree(fs, destination, 1) ELSE destination

----------------------------------------------------------------------------
(* The undo-log sidecar and the undo records *)

NoSidecar == [exists |-> FALSE, moves |-> <<>>, suspicious_files |-> <<>>]

(* save_undo_data: json.dump of "moves" and "suspicious_files"; a failure  *)
(* to open the file is logged and leaves the sidecar as it was.            *)
save_undo_data(sc, ud, sf, write_ok) ==
    IF write_ok THEN [exists |-> TRUE, moves |-> ud, suspicious_files |-> sf] ELSE sc

(* load_undo_data: TRUE iff the sidecar exists (and was read) *)
load_undo_data(sc) == sc.exists

(* lines 756-763 *)
UndoRecord(file_path, destination, category, is_suspicious, is_duplicate) ==
    [original_path |-> file_path, new_path |-> destination, filename |-> file_path.name,
     category |-> category, suspicious |-> is_suspicious, duplicate |-> is_duplicate]

(* mutant of EligiblePaths: hidden files are listed too *)
EligiblePaths_WithHidden(fs) == {p \in DOMAIN fs : p.dir = ROOT}

(* the non-hidden regular files directly in the target directory (line 672) *)
EligiblePaths(fs) == {p \in DOMAIN fs : p.dir = ROOT /\ ~IsHidden(p.name)}

EligibleFiles(fs) == {fs[p] : p \in EligiblePaths(fs)}

(* mutant of ChooseCategory: the duplicate test comes first *)
ChooseCategory_DuplicateFirst(f, otype, is_suspicious, is_duplicate) ==
    IF is_duplicate THEN "Duplicates"
    ELSE IF is_suspicious THEN "Suspicious"
    ELSE get_file_category(f, otype)

(* lines 721-728 *)
ChooseCategory(f, otype, is_suspicious, is_duplicate) ==
    IF is_suspicious THEN "Suspicious"
    ELSE IF is_duplicate THEN "Duplicates"
    ELSE get_file_category(f, otype)

(* lines 731-734: the category folder made inside the loop *)
FoldersInLoop(ds, dry, otype, category, is_suspicious, is_duplicate) ==
    IF otype = "extension" /\ ~is_suspicious /\ ~is_duplicate /\ ~dry
    THEN ds \cup {category}
    ELSE ds

(* shutil.move raises when the source is gone, when the folder of the      *)
(* destination does not exist, or on an I/O error (io_ok = FALSE).         *)
MoveSucceeds(fs, ds, src, dst, io_ok) ==
    io_ok /\ Exists(fs, src) /\ (dst.dir = ROOT \/ dst.dir \in ds)

----------------------------------------------------------------------------
(* Initial state: an organizer was constructed for a directory that holds  *)
(* some files with distinct names, no category folder, and either no       *)
(* sidecar or a sidecar without move records.                              *)

DistinctNames(S) == \A f, g \in S : NameOf(f) = NameOf(g) => f = g

InitialFiles(S) == [p \in {RootPath(NameOf(f)) : f \in S} |-> CHOOSE f \in S : RootPath(NameOf(f)) = p]

Init ==
    /\ custom_db = <<>>
    /\ file_categories = load_custom_categories(custom_db)
    /\ stops = <<>>
    /\ target_exists \in BOOLEAN
    /\ \E S \in SUBSET FileIds :
          /\ DistinctNames(S)
          /\ target_exists \/ S = {}
          /\ files = InitialFiles(S)
          /\ arrived = S
    /\ dirs = {}
    /\ sidecar \in {NoSidecar} \cup
                   (IF target_exists THEN {[NoSidecar EXCEPT !.exists = TRUE]} ELSE {})
    /\ stats = EmptyStats
    /\ undo_data = <<>>
    /\ suspicious_files = <<>>
    /\ duplicate_files = <<>>
    /\ undo_stats = [moved |-> 0, errors |-> 0]
    /\ pc = "idle"
    /\ dry_run = FALSE
    /\ organization_type = "type"
    /\ queue = <<>>
    /\ idx = 0
    /\ result = "none"
    /\ op = "none"
    /\ calls = 0
    /\ faults = 0
    /\ changes = 0
    /\ run_log = <<>>
    /\ trip = "none"

----------------------------------------------------------------------------
(* The environment, between calls *)

(* a new file is put directly into the target directory *)
AddFile(f) ==
    /\ UNCHANGED <<custom_db, file_categories, stops>>
    /\ pc = "idle"
    /\ target_exists
    /\ f \notin arrived
    /\ changes < MaxChanges
    /\ changes' = changes + 1
    /\ ~Exists(files, RootPath(NameOf(f)))
    /\ files' = [p \in DOMAIN files \cup {RootPath(NameOf(f))} |->
                    IF p = RootPath(NameOf(f)) THEN f ELSE files[p]]
    /\ arrived' = arrived \cup {f}
    /\ trip' = "void"
    /\ UNCHANGED <<target_exists, dirs, sidecar, stats, undo_data, suspicious_files,
                   duplicate_files, undo_stats, pc, dry_run, organization_type,
                   queue, idx, result, op, calls, faults, run_log>>

(* a file is deleted from a category folder *)
DeleteFile(p) ==
    /\ UNCHANGED <<custom_db, file_categories, stops>>
    /\ pc = "idle"
    /\ Exists(files, p)
    /\ p.dir # ROOT
    /\ changes < MaxChanges
    /\ changes' = changes + 1
    /\ files' = [q \in DOMAIN files \ {p} |-> files[q]]
    /\ trip' = "void"
    /\ UNCHANGED <<target_exists, dirs, sidecar, arrived, stats, undo_data, suspicious_files,
                   duplicate_files, undo_stats, pc, dry_run, organization_type,
                   queue, idx, result, op, calls, faults, run_log>>

(* the target directory is removed with everything in it *)
RemoveTarget ==
    /\ UNCHANGED <<custom_db, file_categories, stops>>
    /\ pc = "idle"
    /\ target_exists
    /\ changes < MaxChanges
    /\ changes' = changes + 1
    /\ target_exists' = FALSE
    /\ files' = <<>>
    /\ dirs' = {}
    /\ sidecar' = NoSidecar
    /\ trip' = "void"
    /\ UNCHANGED <<arrived, stats, undo_data, suspicious_files, duplicate_files, undo_stats, pc,
                   dry_run, organization_type, queue, idx, result, op, calls, faults, run_log>>

(* __init__ lines 96-100: a new organizer object for the same directory *)
NewOrganizer ==
    /\ file_categories' = load_custom_categories(custom_db)
    /\ UNCHANGED <<custom_db, stops>>
    /\ pc = "idle"
    /\ calls > 0
    /\ stats' = EmptyStats
    /\ undo_data' = <<>>
    /\ suspicious_files' = <<>>
    /\ duplicate_files' = <<>>
    /\ result' = "none"
    /\ op' = "none"
    /\ UNCHANGED <<target_exists, files, dirs, sidecar, arrived, undo_stats, pc, dry_run,
                   organization_type, queue, idx, calls, faults, changes, run_log, trip>>

----------------------------------------------------------------------------
(* organize_files *)

(* lines 681-690: find_duplicates sets stats["duplicates"] and adds the    *)
(* duplicates' sizes to stats["space_saved"]; organize_files then adds the *)
(* same sizes once more.                                                   *)
StatsAfterScan(dups, fd) ==
    IF fd
    THEN [StatsAfterFindDuplicates(EmptyStats, dups) EXCEPT !.space_saved = @ + SumSizes(dups)]
    ELSE EmptyStats

(* lines 672-693: iterdir() lists the eligible files in an order the        *)
(* operating system chooses (scan); the duplicates are found on that list   *)
(* and the list is then sorted.  ScanPlans is the set of outcomes over all  *)
(* listing orders and all sort arguments.                                   *)
ScanPlan(scan, sort_by, sort_order, fd) ==
    [dups  |-> IF fd THEN find_duplicates(scan) ELSE <<>>,
     queue |-> sort_files(scan, sort_by, sort_order)]

PlansOf(S, fd) ==
    {ScanPlan(scan, sort_by, sort_order, fd) :
        scan \in Perms(S), sort_by \in SortKeys, sort_order \in SortOrders}

(* the plans of every set of files, tabulated once *)
RECURSIVE Tabulate(_)
Tabulate(Ss) ==
    LET S == CHOOSE T \in Ss : TRUE
        row == (S :> <<PlansOf(S, FALSE), PlansOf(S, TRUE)>>)
    IN  IF Ss = {S} THEN row ELSE row @@ Tabulate(Ss \ {S})

PlanTable == Tabulate(SUBSET AllFileIds)

ScanPlans(fs, fd) ==
    IF EligibleFiles(fs) \in DOMAIN PlanTable
    THEN PlanTable[EligibleFiles(fs)][IF fd THEN 2 ELSE 1]
    ELSE PlansOf(EligibleFiles(fs), fd)

(* mutant of NothingToOrganize: an empty list is not noticed *)
NothingToOrganize_Never(fl) == FALSE

(* line 673: if not files *)
NothingToOrganize(fl) == fl = <<>>

(* mutant of TargetMissing: the directory is not looked at *)
TargetMissing_Never(te) == FALSE

(* line 662: if not self.target_directory.exists() *)
TargetMissing(te) == ~te

(* lines 652-704: everything before the loop *)
OrganizeBegin(dry, otype, fd, plan) ==
    /\ UNCHANGED <<custom_db, file_categories, stops>>
    /\ pc = "idle"
    /\ calls < MaxCalls
    /\ calls' = calls + 1
    /\ op' = "organize"
    /\ run_log' = <<>>
    /\ UNCHANGED <<target_exists, files, sidecar, arrived, undo_data, undo_stats, faults, changes>>
    /\ IF TargetMissing(target_exists)
       THEN /\ result' = "false"
            /\ trip' = "void"
            /\ pc' = "return"
            /\ dry_run' = dry
            /\ UNCHANGED <<dirs, stats, suspicious_files, duplicate_files,
                           organization_type, queue, idx>>
       ELSE   /\ suspicious_files' = <<>>
              /\ IF NothingToOrganize(plan.queue)
                 THEN /\ stats' = EmptyStats
                      /\ duplicate_files' = <<>>
                      /\ result' = "true"
                      /\ trip' = IF dry THEN "void" ELSE "organized"
                      /\ pc' = "return"
                      /\ dry_run' = dry
                      /\ UNCHANGED <<dirs, organization_type, queue, idx>>
                 ELSE     /\ duplicate_files' = plan.dups
                          /\ stats' = StatsAfterScan(plan.dups, fd)
                          /\ queue' = plan.queue
                          /\ dirs' = FoldersBeforeLoop(dirs, dry, otype, plan.dups)
                          /\ dry_run' = dry
                          /\ organization_type' = otype
                          /\ idx' = 1
                          /\ pc' = "organize"
                          /\ result' = "none"
                          /\ trip' = IF dry THEN "void" ELSE "organizing"

(* mutant of LoopDone: a stop request ends the loop *)
LoopDone_OrStopped(i, n, stop_requests) == i > n \/ stop_requests # <<>>

(* lines 707 and 805: both loops are for-loops over the whole list; no     *)
(* stop request is looked at                                               *)
LoopDone(i, n, stop_requests) == i > n

(* the entry the loop is at, and what lines 715-736 compute for it *)
CurFile == queue[idx]

CurPath == RootPath(NameOf(CurFile))

CurDuplicate == CurFile \in Range(duplicate_files)

CurSuspicious == IsSuspicious(CurFile)

CurCategory == ChooseCategory(CurFile, organization_type, CurSuspicious, CurDuplicate)

(* mutant of StatsAfterError: the failure is not counted *)
StatsAfterError_Uncounted(st) == st

(* lines 766-768: the exception handler of the loop body *)
StatsAfterError(st) == [st EXCEPT !.errors = @ + 1]

(* mutant of NextEntry: a failed move ends the loop *)
NextEntry_StopOnError(i, n, moved) == IF moved THEN i + 1 ELSE n + 1

(* the loop goes on with the next entry, whether or not this one failed *)
NextEntry(i, n, moved) == i + 1

(* mutant of RecordsAfterMove: the record is appended before the move *)
RecordsAfterMove_BeforeMove(ud, rec, moved) == Append(ud, rec)

(* lines 750-763: shutil.move comes first; when it raises, the append is   *)
(* not reached                                                             *)
RecordsAfterMove(ud, rec, moved) == IF moved THEN Append(ud, rec) ELSE ud

(* lines 707-768: one iteration of the loop *)
OrganizeStep(io_ok) ==
    /\ UNCHANGED <<custom_db, file_categories, stops>>
    /\ pc = "organize"
    /\ ~LoopDone(idx, Len(queue), stops)
    /\ io_ok \/ (~dry_run /\ faults < MaxFaults)
    /\ faults' = IF io_ok THEN faults ELSE faults + 1
    /\ LET st1   == IF CurSuspicious THEN [stats EXCEPT !.suspicious = @ + 1] ELSE stats
           ds1   == FoldersInLoop(dirs, dry_run, organization_type, CurCategory,
                                  CurSuspicious, CurDuplicate)
           dest  == ResolveDestination(files, MkPath(CurCategory, NameOf(CurFile)))
           moved == ~dry_run /\ MoveSucceeds(files, ds1, CurPath, dest, io_ok)
       IN  /\ suspicious_files' = IF CurSuspicious THEN Append(suspicious_files, CurPath)
                                                   ELSE suspicious_files
           /\ dirs' = ds1
           /\ idx' = NextEntry(idx, Len(queue), dry_run \/ moved)
           /\ IF dry_run
              THEN /\ stats' = st1
                   /\ UNCHANGED <<files, undo_data, run_log>>
              ELSE /\ undo_data' = RecordsAfterMove(undo_data,
                                      UndoRecord(CurPath, dest, CurCategory, CurSuspicious, CurDuplicate),
                                      moved)
                   /\ IF moved
                      THEN /\ files' = MoveFile(files, CurPath, dest)
                           /\ stats' = [st1 EXCEPT !.moved = @ + 1]
                           /\ run_log' = Append(run_log, [file |-> CurFile, src |-> CurPath, dst |-> dest,
                                                          dst_taken |-> Exists(files, dest)])
                      ELSE /\ stats' = StatsAfterError(st1)
                           /\ UNCHANGED <<files, run_log>>
    /\ UNCHANGED <<target_exists, sidecar, arrived, duplicate_files, undo_stats, pc, dry_run,
                   organization_type, queue, result, op, calls, changes, trip>>

(* mutant of OrganizeResult: a log that could not be saved fails the run *)
OrganizeResult_FailOnSaveError(saved) == IF saved THEN "true" ELSE "false"

(* line 785: return True, whatever save_undo_data did *)
OrganizeResult(saved) == "true"

(* lines 770-785: after the loop *)
OrganizeEnd(write_ok) ==
    /\ UNCHANGED <<custom_db, file_categories, stops>>
    /\ pc = "organize"
    /\ LoopDone(idx, Len(queue), stops)
    /\ write_ok \/ (~dry_run /\ stats.moved > 0 /\ faults < MaxFaults)
    /\ faults' = IF write_ok THEN faults ELSE faults + 1
    /\ sidecar' = IF ~dry_run /\ stats.moved > 0
                  THEN save_undo_data(sidecar, undo_data, suspicious_files, write_ok)
                  ELSE sidecar
    /\ trip' = IF dry_run THEN "void"
               ELSE IF stats.moved > 0 /\ ~write_ok THEN "void"
               ELSE "organized"
    /\ result' = OrganizeResult(write_ok)
    /\ pc' = "idle"
    /\ queue' = <<>>
    /\ idx' = 0
    /\ dry_run' = FALSE
    /\ organization_type' = "type"
    /\ UNCHANGED <<target_exists, files, dirs, arrived, stats, undo_data, suspicious_files,
                   duplicate_files, undo_stats, op, calls, changes, run_log>>

----------------------------------------------------------------------------
(* undo_organization *)

(* mutant of UndoDecision: the new path is not checked *)
UndoDecision_NoMissingCheck(fs, entry) ==
    IF Exists(fs, entry.original_path) THEN "occupied" ELSE "move"

(* mutant of UndoDecision: the original path is not checked *)
UndoDecision_NoOccupiedCheck(fs, entry) ==
    IF ~Exists(fs, entry.new_path) THEN "missing" ELSE "move"

(* lines 823-835: what is done with one logged entry in a real run *)
UndoDecision(fs, entry) ==
    IF ~Exists(fs, entry.new_path) THEN "missing"
    ELSE IF Exists(fs, entry.original_path) THEN "occupied"
    ELSE "move"

(* mutant of NothingLoaded: an empty list is not noticed *)
NothingLoaded_Never(ud) == FALSE

(* line 796: if not self.undo_data *)
NothingLoaded(ud) == ud = <<>>

(* lines 787-803: load the log; return False when there is nothing to undo *)
UndoBegin(dry) ==
    /\ UNCHANGED <<custom_db, file_categories, stops>>
    /\ pc = "idle"
    /\ calls < MaxCalls
    /\ calls' = calls + 1
    /\ op' = "undo"
    /\ UNCHANGED <<target_exists, files, dirs, sidecar, arrived, stats, duplicate_files,
                   organization_type, queue, faults, changes, run_log>>
    /\ IF ~load_undo_data(sidecar)
       THEN /\ result' = "false"
            /\ trip' = IF ~dry /\ trip = "organized" THEN "undone" ELSE "void"
            /\ pc' = "return"
            /\ dry_run' = dry
            /\ UNCHANGED <<undo_data, suspicious_files, undo_stats, idx>>
       ELSE /\ undo_data' = sidecar.moves
            /\ suspicious_files' = sidecar.suspicious_files
            /\ dry_run' = dry
            /\ IF NothingLoaded(sidecar.moves)
               THEN /\ result' = "false"
                    /\ trip' = IF ~dry /\ trip = "organized" THEN "undone" ELSE "void"
                    /\ pc' = "return"
                    /\ UNCHANGED <<undo_stats, idx>>
               ELSE /\ undo_stats' = [moved |-> 0, errors |-> 0]
                    /\ idx' = 1
                    /\ pc' = "undo"
                    /\ result' = "none"
                    /\ trip' = IF ~dry /\ trip = "organized" THEN "undoing" ELSE "void"

(* lines 805-846: one iteration of the loop *)
UndoStep(io_ok) ==
    /\ UNCHANGED <<custom_db, file_categories, stops>>
    /\ pc = "undo"
    /\ ~LoopDone(idx, Len(undo_data), stops)
    /\ io_ok \/ (~dry_run /\ UndoDecision(files, undo_data[idx]) = "move" /\ faults < MaxFaults)
    /\ faults' = IF io_ok THEN faults ELSE faults + 1
    /\ idx' = idx + 1
    /\ LET entry == undo_data[idx]
           todo  == UndoDecision(files, entry)
       IN  IF dry_run \/ todo \in {"missing", "occupied"}
           THEN UNCHANGED <<files, undo_stats, trip>>
           ELSE IF MoveSucceeds(files, dirs, entry.new_path, entry.original_path, io_ok)
           THEN /\ files' = MoveFile(files, entry.new_path, entry.original_path)
                /\ undo_stats' = [undo_stats EXCEPT !.moved = @ + 1]
                /\ UNCHANGED trip
           ELSE /\ undo_stats' = [undo_stats EXCEPT !.errors = @ + 1]
                /\ trip' = "void"
                /\ UNCHANGED files
    /\ UNCHANGED <<target_exists, dirs, sidecar, arrived, stats, undo_data, suspicious_files,
                   duplicate_files, pc, dry_run, organization_type, queue, result, op,
                   calls, changes, run_log>>

(* mutant of RestoredAny: the log is cleared after every real undo *)
RestoredAny_Always(restored) == TRUE

(* line 855: if undo_stats["moved"] > 0 *)
RestoredAny(restored) == restored > 0

(* mutant of clear_undo_data: the file is not removed *)
clear_undo_data_KeepFile(sc, unlink_ok) == sc

(* clear_undo_data lines 601-605: the sidecar is unlinked when it exists; a *)
(* failure of unlink is logged and leaves the file as it was.               *)
clear_undo_data(sc, unlink_ok) == IF sc.exists /\ unlink_ok THEN NoSidecar ELSE sc

(* lines 848-859: after the loop *)
UndoEnd(unlink_ok) ==
    /\ UNCHANGED <<custom_db, file_categories, stops>>
    /\ pc = "undo"
    /\ LoopDone(idx, Len(undo_data), stops)
    /\ unlink_ok \/ (~dry_run /\ RestoredAny(undo_stats.moved) /\ sidecar.exists
                                /\ faults < MaxFaults)
    /\ faults' = IF unlink_ok THEN faults ELSE faults + 1
    /\ IF ~dry_run /\ RestoredAny(undo_stats.moved)
       THEN /\ undo_data' = <<>>
            /\ suspicious_files' = <<>>
            /\ sidecar' = clear_undo_data(sidecar, unlink_ok)
       ELSE UNCHANGED <<undo_data, suspicious_files, sidecar>>
    /\ trip' = IF trip = "undoing" /\ unlink_ok THEN "undone" ELSE "void"
    /\ result' = "true"
    /\ pc' = "idle"
    /\ idx' = 0
    /\ dry_run' = FALSE
    /\ undo_stats' = [moved |-> 0, errors |-> 0]
    /\ UNCHANGED <<target_exists, files, dirs, arrived, stats, duplicate_files,
                   organization_type, queue, op, calls, changes, run_log>>

(* the return statements at lines 664, 675, 794 and 798: control goes back *)
(* to the caller                                                           *)
Return ==
    /\ UNCHANGED <<custom_db, file_categories, stops>>
    /\ pc = "return"
    /\ pc' = "idle"
    /\ dry_run' = FALSE
    /\ UNCHANGED <<target_exists, files, dirs, sidecar, arrived, stats, undo_data,
                   suspicious_files, duplicate_files, undo_stats, organization_type,
                   queue, idx, result, op, calls, faults, changes, run_log, trip>>

----------------------------------------------------------------------------

Next ==
    \/ \E f \in FileIds : AddFile(f)
    \/ \E p \in DOMAIN files : DeleteFile(p)
    \/ RemoveTarget
    \/ NewOrganizer
    \/ \E fd \in BOOLEAN : \E plan \in ScanPlans(files, fd) :
          \E dry \in BOOLEAN, otype \in OrgTypes : OrganizeBegin(dry, otype, fd, plan)
    \/ \E io_ok \in BOOLEAN : OrganizeStep(io_ok)
    \/ \E write_ok \in BOOLEAN : OrganizeEnd(write_ok)
    \/ \E dry \in BOOLEAN : UndoBegin(dry)
    \/ \E io_ok \in BOOLEAN : UndoStep(io_ok)
    \/ \E unlink_ok \in BOOLEAN : UndoEnd(unlink_ok)
    \/ Return

Spec == Init /\ [][Next]_vars

----------------------------------------------------------------------------
(* The same organizer on a directory that also holds a hidden file *)

InitHidden ==
    /\ custom_db = <<>>
    /\ file_categories = load_custom_categories(custom_db)
    /\ stops = <<>>
    /\ target_exists = TRUE
    /\ \E S \in SUBSET FileIds :
          /\ DistinctNames(S)
          /\ files = InitialFiles(S \cup HiddenFileIds)
          /\ arrived = S \cup HiddenFileIds
    /\ dirs = {}
    /\ sidecar \in {NoSidecar, [NoSidecar EXCEPT !.exists = TRUE]}
    /\ stats = EmptyStats
    /\ undo_data = <<>>
    /\ suspicious_files = <<>>
    /\ duplicate_files = <<>>
    /\ undo_stats = [moved |-> 0, errors |-> 0]
    /\ pc = "idle"
    /\ dry_run = FALSE
    /\ organization_type = "type"
    /\ queue = <<>>
    /\ idx = 0
    /\ result = "none"
    /\ op = "none"
    /\ calls = 0
    /\ faults = 0
    /\ changes = 0
    /\ run_log = <<>>
    /\ trip = "none"

SpecHidden == InitHidden /\ [][Next]_vars

----------------------------------------------------------------------------
(* The organizer alone on a directory of files of several types: nothing   *)
(* but the organizer touches the directory.                                *)

MaxTypeFiles == 2

TypeFileIds == {1, 7, 8, 9, 10}

InitTypes ==
    /\ custom_db = <<>>
    /\ file_categories = load_custom_categories(custom_db)
    /\ stops = <<>>
    /\ target_exists = TRUE
    /\ \E S \in SUBSET TypeFileIds :
          /\ Cardinality(S) <= MaxTypeFiles
          /\ DistinctNames(S)
          /\ files = InitialFiles(S)
          /\ arrived = S
    /\ dirs = {}
    /\ sidecar = NoSidecar
    /\ stats = EmptyStats
    /\ undo_data = <<>>
    /\ suspicious_files = <<>>
    /\ duplicate_files = <<>>
    /\ undo_stats = [moved |-> 0, errors |-> 0]
    /\ pc = "idle"
    /\ dry_run = FALSE
    /\ organization_type = "type"
    /\ queue = <<>>
    /\ idx = 0
    /\ result = "none"
    /\ op = "none"
    /\ calls = 0
    /\ faults = 0
    /\ changes = 0
    /\ run_log = <<>>
    /\ trip = "none"

NextAlone ==
    \/ NewOrganizer
    \/ \E fd \in BOOLEAN : \E plan \in ScanPlans(files, fd) :
          \E dry \in BOOLEAN, otype \in OrgTypes : OrganizeBegin(dry, otype, fd, plan)
    \/ \E io_ok \in BOOLEAN : OrganizeStep(io_ok)
    \/ \E write_ok \in BOOLEAN : OrganizeEnd(write_ok)
    \/ \E dry \in BOOLEAN : UndoBegin(dry)
    \/ \E io_ok \in BOOLEAN : UndoStep(io_ok)
    \/ \E unlink_ok \in BOOLEAN : UndoEnd(unlink_ok)
    \/ Return

SpecTypes == InitTypes /\ [][NextAlone]_vars

----------------------------------------------------------------------------
(* Custom categories: save_custom_category on an organizer whose database  *)
(* may already hold a category of an earlier session.                      *)

MaxSaves == 2

CategoryNames == {"Documents", "Notes", "Misc"}

ExtensionSets == {{}, {".txt"}, {".md"}, {".md", ".xyz"}}

CategoryRow(name, exts) == [name |-> name, exts |-> exts]

(* INSERT OR REPLACE on the UNIQUE column name: a row of that name is      *)
(* deleted and the new row is inserted                                     *)
InsertOrReplace(db, name, exts) ==
    LET Other(r) == r.name # name
    IN  Append(SelectSeq(db, Other), CategoryRow(name, StoredExtensions(exts)))

InitCategories ==
    /\ custom_db \in {<<>>, <<CategoryRow("Notes", {".md"})>>}
    /\ file_categories = load_custom_categories(custom_db)
    /\ stops = <<>>
    /\ target_exists = TRUE
    /\ files = InitialFiles({})
    /\ arrived = {}
    /\ dirs = {}
    /\ sidecar = NoSidecar
    /\ stats = EmptyStats
    /\ undo_data = <<>>
    /\ suspicious_files = <<>>
    /\ duplicate_files = <<>>
    /\ undo_stats = [moved |-> 0, errors |-> 0]
    /\ pc = "idle"
    /\ dry_run = FALSE
    /\ organization_type = "type"
    /\ queue = <<>>
    /\ idx = 0
    /\ result = "none"
    /\ op = "none"
    /\ calls = 0
    /\ faults = 0
    /\ changes = 0
    /\ run_log = <<>>
    /\ trip = "none"

(* lines 190-209; db_ok = FALSE: there is no connection, or the statement  *)
(* raises                                                                  *)
save_custom_category(name, extensions, db_ok) ==
    /\ pc = "idle"
    /\ calls < MaxSaves
    /\ calls' = calls + 1
    /\ op' = "save_custom_category"
    /\ IF db_ok
       THEN /\ custom_db' = InsertOrReplace(custom_db, name, extensions)
            /\ file_categories' = SetCategory(file_categories, name, extensions)
            /\ result' = "true"
       ELSE /\ UNCHANGED <<custom_db, file_categories>>
            /\ result' = "false"
    /\ UNCHANGED <<target_exists, files, dirs, sidecar, arrived, stats, undo_data,
                   suspicious_files, duplicate_files, undo_stats, pc, dry_run,
                   organization_type, queue, idx, faults, changes, run_log, trip, stops>>

NextCategories ==
    \/ \E name \in CategoryNames, extensions \in ExtensionSets, db_ok \in BOOLEAN :
          save_custom_category(name, extensions, db_ok)
    \/ NewOrganizer

SpecCategories == InitCategories /\ [][NextCategories]_vars

----------------------------------------------------------------------------
(* get_file_category on its own: an organizer is asked for the category of *)
(* one file (kept in queue) under one mode (kept in organization_type),    *)
(* and the label it returns is kept in result.                             *)

ClassifyFileIds == 1..Len(FileTable)

(* the four modes and one string that is none of them *)
ClassifyModes == OrgTypes \cup {"name"}

InitClassify ==
    /\ custom_db \in {<<>>, <<CategoryRow("Notes", {".xyz"})>>}
    /\ file_categories = load_custom_categories(custom_db)
    /\ stops = <<>>
    /\ target_exists = TRUE
    /\ files = InitialFiles({})
    /\ arrived = {}
    /\ dirs = {}
    /\ sidecar = NoSidecar
    /\ stats = EmptyStats
    /\ undo_data = <<>>
    /\ suspicious_files = <<>>
    /\ duplicate_files = <<>>
    /\ undo_stats = [moved |-> 0, errors |-> 0]
    /\ pc = "idle"
    /\ dry_run = FALSE
    /\ organization_type = "type"
    /\ queue = <<>>
    /\ idx = 0
    /\ result = "none"
    /\ op = "none"
    /\ calls = 0
    /\ faults = 0
    /\ changes = 0
    /\ run_log = <<>>
    /\ trip = "none"

Classify(f, otype) ==
    /\ pc = "idle"
    /\ calls < MaxCalls
    /\ calls' = calls + 1
    /\ op' = "get_file_category"
    /\ queue' = <<f>>
    /\ organization_type' = otype
    /\ result' = get_file_category(f, otype)
    /\ UNCHANGED <<custom_db, file_categories, stops, target_exists, files, dirs, sidecar,
                   arrived, stats, undo_data, suspicious_files, duplicate_files, undo_stats,
                   pc, dry_run, idx, faults, changes, run_log, trip>>

NextClassify == \E f \in ClassifyFileIds, otype \in ClassifyModes : Classify(f, otype)

SpecClassify == InitClassify /\ [][NextClassify]_vars

----------------------------------------------------------------------------
(* The organizer run by the GUI: while the worker thread runs a call, the  *)
(* Stop button is enabled and the user may press it.                       *)

MaxStops == 1

(* lines 1923-1926: _on_stop shows a message box; stops is the list of the *)
(* requests made, each with the call and the loop position it came at     *)
OnStop ==
    /\ pc # "idle"
    /\ Len(stops) < MaxStops
    /\ stops' = Append(stops, [call |-> calls, at |-> idx])
    /\ UNCHANGED <<custom_db, file_categories, target_exists, files, dirs, sidecar, arrived,
                   stats, undo_data, suspicious_files, duplicate_files, undo_stats, pc,
                   dry_run, organization_type, queue, idx, result, op, calls, faults,
                   changes, run_log, trip>>

NextGUI == NextAlone \/ OnStop

SpecGUI == InitTypes /\ [][NextGUI]_vars

----------------------------------------------------------------------------
(* find_duplicates on its own: a new organizer is handed a list of files   *)
(* (kept in queue), in any order, some of them unreadable.                 *)

DupFileIds == 1..NDupFiles

FileLists(S) == UNION {Perms(T) : T \in SUBSET S}

InitFindDuplicates ==
    /\ custom_db = <<>>
    /\ file_categories = load_custom_categories(custom_db)
    /\ stops = <<>>
    /\ target_exists = TRUE
    /\ files = <<>>
    /\ dirs = {}
    /\ sidecar = NoSidecar
    /\ arrived = {}
    /\ stats = EmptyStats
    /\ undo_data = <<>>
    /\ suspicious_files = <<>>
    /\ duplicate_files = <<>>
    /\ undo_stats = [moved |-> 0, errors |-> 0]
    /\ pc = "idle"
    /\ dry_run = FALSE
    /\ organization_type = "type"
    /\ queue \in FileLists(DupFileIds)
    /\ idx = 0
    /\ result = "none"
    /\ op = "none"
    /\ calls = 0
    /\ faults = 0
    /\ changes = 0
    /\ run_log = <<>>
    /\ trip = "none"

(* lines 222-261 *)
FindDuplicates ==
    /\ UNCHANGED <<custom_db, file_categories, stops>>
    /\ pc = "idle"
    /\ op = "none"
    /\ op' = "find_duplicates"
    /\ IF queue = <<>>
       THEN UNCHANGED <<duplicate_files, stats>>
       ELSE /\ duplicate_files' = find_duplicates(queue)
            /\ stats' = StatsAfterFindDuplicates(stats, find_duplicates(queue))
    /\ UNCHANGED <<target_exists, files, dirs, sidecar, arrived, undo_data, suspicious_files,
                   undo_stats, pc, dry_run, organization_type, queue, idx, result, calls,
                   faults, changes, run_log, trip>>

NextFindDuplicates == FindDuplicates

SpecFindDuplicates == InitFindDuplicates /\ [][NextFindDuplicates]_vars

----------------------------------------------------------------------------
(* Properties *)

(* a step of the loop of a real organize_files run *)
RealOrganizeStep == pc = "organize" /\ ~dry_run /\ idx <= Len(queue) /\ vars' # vars

(* a step of the loop of a real undo_organization run *)
RealUndoStep == pc = "undo" /\ ~dry_run /\ idx <= Len(undo_data) /\ vars' # vars

Last(s) == s[Len(s)]

(* the path p with _N put before the extension *)
Suffixed(p, N) ==
    [dir |-> p.dir, name |-> [base |-> p.name.base, sfx |-> p.name.sfx \o <<N>>, ext |-> p.name.ext]]

(* the file g is where organize found it, and nowhere else *)
BackAt(g, p) == Exists(files, p) /\ files[p] = g /\ \A q \in DOMAIN files : files[q] = g => q = p

(* C1: a real organize_files run directly followed by a real               *)
(* undo_organization run, with no file added or deleted in between and no  *)
(* I/O error in the undo or in writing the log, leaves every file that the *)
(* organize run moved at its original path and in no category folder.      *)
C1_RoundTrip ==
    trip = "undone" =>
        \A i \in 1..Len(run_log) : BackAt(run_log[i].file, run_log[i].src)

(* C2: no step of a dry run (organize_files or undo_organization with      *)
(* dry_run=True) changes the files, the folders or the undo-log sidecar.   *)
C2_DryRunFrame == [][(dry_run \/ dry_run') => UNCHANGED fsvars]_vars

C2_Witness ==
    /\ dry_run /\ pc = "organize" /\ idx > Len(queue)
    /\ sidecar.exists /\ sidecar.moves # <<>>

(* the original and new paths of a list of undo records / of physical moves *)
MovesOfRecords(ud) == [i \in 1..Len(ud) |-> <<ud[i].original_path, ud[i].new_path>>]

MovesOfRun(rl) == [i \in 1..Len(rl) |-> <<rl[i].src, rl[i].dst>>]

(* C3: when a real organize_files run persists the sidecar, the move        *)
(* records in the sidecar are exactly the moves that succeeded in that run, *)
(* in execution order.                                                      *)
C3_LogIsThisRun ==
    [][(pc = "organize" /\ pc' = "idle" /\ ~dry_run /\ stats.moved > 0 /\ faults' = faults)
          => (sidecar'.exists /\ MovesOfRecords(sidecar'.moves) = MovesOfRun(run_log))]_vars

(* C4: within one real organize_files run the destinations of the executed  *)
(* moves are pairwise distinct and none was the path of an existing file    *)
(* when its move was made.                                                  *)
C4_DistinctDestinations ==
    /\ \A i \in 1..Len(run_log) : ~run_log[i].dst_taken
    /\ \A i, j \in 1..Len(run_log) : run_log[i].dst = run_log[j].dst => i = j

(* an entry whose plain destination is the destination of an earlier move   *)
(* of the same run                                                          *)
C4_Witness ==
    \E i, j \in 1..Len(run_log) :
        /\ i < j
        /\ MkPath(run_log[j].dst.dir, run_log[j].src.name) = run_log[i].dst
        /\ run_log[j].dst # run_log[i].dst

(* C5: the destination of a move is target/category/name when that path is  *)
(* free, and otherwise target/category/stem_N.ext for the smallest N >= 1    *)
(* whose path does not exist.                                               *)
C5_FirstFreeSuffix ==
    [][(RealOrganizeStep /\ Len(run_log') = Len(run_log) + 1) =>
          LET r     == Last(run_log')
              plain == MkPath(r.dst.dir, r.src.name)
          IN  IF ~Exists(files, plain)
              THEN r.dst = plain
              ELSE \E N \in 1..(Cardinality(DOMAIN files) + 1) :
                      /\ r.dst = Suffixed(plain, N)
                      /\ ~Exists(files, Suffixed(plain, N))
                      /\ \A k \in 1..(N - 1) : Exists(files, Suffixed(plain, k))]_vars

(* a move whose destination got the suffix _2 *)
C5_Witness ==
    \E i \in 1..Len(run_log) :
        run_log[i].dst = Suffixed(MkPath(run_log[i].dst.dir, run_log[i].src.name), 2)

(* C6: in a real organize_files run an entry whose move fails adds one to   *)
(* the error counter and no undo record, the loop goes on with the next     *)
(* entry, and the loop is left only after the last entry, with every entry  *)
(* counted as moved or as an error.                                         *)
C6_FailureNotFatal ==
    [][/\ (RealOrganizeStep /\ files' = files) =>
              /\ stats'.errors = stats.errors + 1
              /\ stats'.moved = stats.moved
              /\ undo_data' = undo_data
              /\ pc' = "organize"
              /\ idx' = idx + 1
       /\ (pc = "organize" /\ pc' # "organize") =>
              /\ idx = Len(queue) + 1
              /\ ~dry_run => stats.moved + stats.errors = Len(queue)]_vars

(* the first entry failed and a later entry was moved *)
C6_Witness ==
    /\ pc = "organize" /\ ~dry_run
    /\ stats.errors = 1
    /\ run_log # <<>>
    /\ \A i \in 1..Len(run_log) : run_log[i].file # queue[1]

(* C7: in a real organize_files run the folder of the category chosen for   *)
(* an entry exists when the move of that entry is attempted.                *)
C7_CategoryFolderExists ==
    [][RealOrganizeStep => CurCategory \in dirs']_vars

(* C8: when the sidecar is absent, or present with an empty list of moves,  *)
(* undo_organization returns False and changes no file, no folder and not   *)
(* the sidecar.                                                             *)
C8_NothingToUndo ==
    [][(pc = "idle" /\ pc' # "idle" /\ op' = "undo" /\ (~sidecar.exists \/ sidecar.moves = <<>>))
          => (pc' = "return" /\ result' = "false" /\ UNCHANGED fsvars)]_vars

(* an undo call returned at a sidecar that has no move records *)
C8_Witness == pc = "return" /\ op = "undo" /\ result = "false" /\ sidecar.exists

(* C9: in a real undo run an entry whose file is not at its new path is     *)
(* skipped without counting an error; an entry whose new path exists and    *)
(* whose original path is free is restored (or, when the move itself        *)
(* raises, counted as an error); and a run that restored at least one entry *)
(* ends with the sidecar deleted and the in-memory list empty.              *)
C9_SkipVanished ==
    [][/\ RealUndoStep =>
              LET e == undo_data[idx]
              IN  /\ ~Exists(files, e.new_path) =>
                        /\ files' = files
                        /\ undo_stats' = undo_stats
                        /\ idx' = idx + 1
                        /\ pc' = "undo"
                  /\ (Exists(files, e.new_path) /\ ~Exists(files, e.original_path)) =>
                        \/ /\ faults' = faults
                           /\ Exists(files', e.original_path)
                           /\ files'[e.original_path] = files[e.new_path]
                           /\ ~Exists(files', e.new_path)
                           /\ undo_stats' = [undo_stats EXCEPT !.moved = @ + 1]
                        \/ /\ faults' = faults + 1
                           /\ files' = files
                           /\ undo_stats' = [undo_stats EXCEPT !.errors = @ + 1]
       /\ (pc = "undo" /\ pc' = "idle" /\ ~dry_run /\ undo_stats.moved > 0 /\ faults' = faults) =>
              (sidecar' = NoSidecar /\ undo_data' = <<>>)]_vars

(* a real undo run restored an entry, counted no error, and skipped an      *)
(* entry whose file is neither at its new nor at its original path          *)
C9_Witness ==
    /\ pc = "undo" /\ ~dry_run /\ idx > Len(undo_data)
    /\ undo_stats.moved > 0 /\ undo_stats.errors = 0
    /\ \E i \in 1..Len(undo_data) :
          ~Exists(files, undo_data[i].new_path) /\ ~Exists(files, undo_data[i].original_path)

(* C10: in a real undo run an entry whose original path is occupied is       *)
(* skipped: no file moves, no error is counted, and the loop goes on.        *)
C10_NeverOverwrite ==
    [][(RealUndoStep /\ Exists(files, undo_data[idx].original_path)) =>
          /\ files' = files
          /\ undo_stats' = undo_stats
          /\ idx' = idx + 1
          /\ pc' = "undo"]_vars

(* an entry was passed whose new path and original path both hold a file *)
C10_Witness ==
    /\ pc = "undo" /\ ~dry_run
    /\ \E i \in 1..(idx - 1) :
          /\ i <= Len(undo_data)
          /\ Exists(files, undo_data[i].new_path)
          /\ Exists(files, undo_data[i].original_path)
          /\ files[undo_data[i].new_path] # files[undo_data[i].original_path]

(* C11: a real undo run that restored at least one entry ends with the      *)
(* in-memory undo list empty and, unless the unlink of the sidecar itself   *)
(* raised, with no sidecar, however many other entries of the log were      *)
(* skipped or failed.                                                       *)
C11_PartialUndoClearsLog ==
    [][(pc = "undo" /\ pc' = "idle" /\ ~dry_run /\ undo_stats.moved > 0) =>
          /\ undo_data' = <<>>
          /\ suspicious_files' = <<>>
          /\ faults' = faults => ~sidecar'.exists]_vars

(* an undo run has returned and cleared the log although a file that the    *)
(* organize run moved is still in its category folder, next to one that is  *)
(* back                                                                     *)
C11_Witness ==
    /\ pc = "idle" /\ op = "undo" /\ result = "true"
    /\ ~sidecar.exists /\ undo_data = <<>>
    /\ \E i, j \in 1..Len(run_log) :
          /\ Exists(files, run_log[i].dst) /\ files[run_log[i].dst] = run_log[i].file
          /\ BackAt(run_log[j].file, run_log[j].src)

(* C12: a real organize_files run writes the sidecar only when no log with  *)
(* move records is pending in the directory; at the least, no move record   *)
(* of a pending log is lost when the sidecar is written.                    *)
C12_OnePendingLog ==
    [][(pc = "organize" /\ pc' = "idle" /\ sidecar' # sidecar) =>
          \/ ~(sidecar.exists /\ sidecar.moves # <<>>)
          \/ Range(sidecar.moves) \subseteq Range(sidecar'.moves)]_vars

(* C13: for every entry a real organize_files run moves, the category is    *)
(* "Suspicious" when the detector flags the file (duplicate or not),        *)
(* otherwise "Duplicates" when the file is in the duplicate list, otherwise *)
(* the classifier's category for the mode; the file goes to the folder of   *)
(* that category, and the suspicious and duplicate flags of its undo record *)
(* are the two detector results.  In a dry run as in a real run the         *)
(* suspicious counter grows exactly for the flagged entries.                *)
C13_CategoryPrecedence ==
    [][/\ (RealOrganizeStep /\ Len(undo_data') = Len(undo_data) + 1) =>
              LET r   == Last(undo_data')
                  f   == queue[idx]
                  sus == detect_suspicious_file(NameOf(f), Attr(f).size)
                  dup == \E k \in 1..Len(duplicate_files) : duplicate_files[k] = f
              IN  /\ r.suspicious = sus
                  /\ r.duplicate = dup
                  /\ sus => r.category = "Suspicious"
                  /\ (~sus /\ dup) => r.category = "Duplicates"
                  /\ (~sus /\ ~dup) => r.category = get_file_category(f, organization_type)
                  /\ r.new_path.dir = r.category
       /\ (pc = "organize" /\ idx <= Len(queue) /\ idx' = idx + 1) =>
              stats'.suspicious = stats.suspicious +
                  (IF detect_suspicious_file(NameOf(queue[idx]), Attr(queue[idx]).size) THEN 1 ELSE 0)]_vars

(* the log holds a file that is suspicious and a duplicate, filed under     *)
(* Suspicious, and a plain duplicate filed under Duplicates                 *)
C13_Witness ==
    /\ \E i \in 1..Len(undo_data) :
          undo_data[i].suspicious /\ undo_data[i].duplicate /\ undo_data[i].category = "Suspicious"
    /\ \E i \in 1..Len(undo_data) :
          ~undo_data[i].suspicious /\ undo_data[i].duplicate /\ undo_data[i].category = "Duplicates"

(* the positions of a list whose file has a hash / has the hash h *)
HashedAt(scan) == {i \in 1..Len(scan) : Attr(scan[i]).hash # NoHash}

GroupAt(scan, h) == {i \in 1..Len(scan) : Attr(scan[i]).hash = h}

(* C14: after find_duplicates on a list of files, the files marked as       *)
(* duplicates are exactly the files that have a hash and come, in the order *)
(* of the list, after another file with the same hash; each is marked once; *)
(* a group of K files with one hash gives K-1 duplicates; stats.duplicates  *)
(* is the number marked; a file without a hash is never marked.             *)
C14_DuplicateGrouping ==
    op = "find_duplicates" =>
        LET scan   == queue
            marked == {i \in 1..Len(scan) : \E k \in 1..Len(duplicate_files) : duplicate_files[k] = scan[i]}
        IN  /\ \A i \in 1..Len(scan) :
                  i \in marked <=>
                      /\ i \in HashedAt(scan)
                      /\ \E j \in 1..(i - 1) : Attr(scan[j]).hash = Attr(scan[i]).hash
            /\ Range(duplicate_files) \subseteq Range(scan)
            /\ Cardinality(Range(duplicate_files)) = Len(duplicate_files)
            /\ \A i \in HashedAt(scan) :
                  Cardinality(marked \cap GroupAt(scan, Attr(scan[i]).hash))
                      = Cardinality(GroupAt(scan, Attr(scan[i]).hash)) - 1
            /\ stats.duplicates = Cardinality(marked)
            /\ marked \cap ((1..Len(scan)) \ HashedAt(scan)) = {}

(* three identical files and two unreadable ones were scanned: two          *)
(* duplicates                                                               *)
C14_Witness ==
    /\ op = "find_duplicates"
    /\ \E i \in HashedAt(queue) : Cardinality(GroupAt(queue, Attr(queue[i]).hash)) = 3
    /\ Cardinality((1..Len(queue)) \ HashedAt(queue)) = 2
    /\ Len(duplicate_files) = 2

(* C15: after organize_files has returned True, stats["space_saved"] is the *)
(* sum of the sizes of the files in the duplicate list, each counted once.  *)
C15_SpaceSavedOnce ==
    (pc = "idle" /\ op = "organize" /\ result = "true") =>
        stats.space_saved = SumSizes(duplicate_files)

(* C16: when the loop of a dry-run organize_files has gone over its N       *)
(* entries, a counter of the session statistics other than the counter of   *)
(* real moves shows N previewed entries, and the counter of real moves      *)
(* shows none.                                                              *)
C16_DryRunCountsPreviews ==
    (pc = "organize" /\ dry_run /\ idx > Len(queue)) =>
        /\ stats.moved = 0
        /\ \E k \in DOMAIN stats \ {"moved"} : stats[k] = Len(queue)

(* C17: organize_files on a target directory that does not exist returns    *)
(* False and changes no file, no folder, not the sidecar, not the session   *)
(* statistics and not the in-memory undo list.                              *)
C17_MissingTargetNoState ==
    [][(pc = "idle" /\ pc' # "idle" /\ op' = "organize" /\ ~target_exists) =>
          /\ pc' = "return"
          /\ result' = "false"
          /\ UNCHANGED <<fsvars, stats, undo_data, suspicious_files, duplicate_files>>]_vars

(* organize_files returned False for a directory that was removed after a   *)
(* run that moved files                                                     *)
C17_Witness ==
    /\ pc = "return" /\ op = "organize" /\ result = "false"
    /\ ~target_exists
    /\ stats.moved > 0 /\ undo_data # <<>>

(* C18: when the write of the sidecar fails at the end of a real            *)
(* organize_files run that moved at least one file, the call still returns  *)
(* True, every file the run moved stays at its new path, and the            *)
(* statistics, stats["moved"] among them, are unchanged.                    *)
C18_SaveFailureNotFatal ==
    [][(pc = "organize" /\ pc' = "idle" /\ ~dry_run /\ stats.moved > 0 /\ faults' = faults + 1) =>
          /\ result' = "true"
          /\ files' = files
          /\ \A i \in 1..Len(run_log) :
                Exists(files', run_log[i].dst) /\ files'[run_log[i].dst] = run_log[i].file
          /\ stats' = stats
          /\ stats'.moved = Len(run_log)
          /\ sidecar' = sidecar]_vars

(* a run has returned True with its files moved and no log of them on disk *)
C18_Witness ==
    /\ pc = "idle" /\ op = "organize" /\ result = "true"
    /\ target_exists
    /\ stats.moved > 0 /\ run_log # <<>>
    /\ \A i \in 1..Len(run_log) :
          Exists(files, run_log[i].dst) /\ files[run_log[i].dst] = run_log[i].file
    /\ sidecar.moves = <<>>

(* a path that organize_files must leave alone: in a sub-folder, or hidden *)
OutOfScope(p) == p.dir # ROOT \/ IsHidden(p.name)

(* C19: organize_files on an existing directory with no non-hidden regular  *)
(* file directly in it returns True and changes no file, no folder and not  *)
(* the sidecar.                                                             *)
C19_NoFilesNoOp ==
    [][(/\ pc = "idle" /\ pc' # "idle" /\ op' = "organize"
        /\ target_exists
        /\ \A p \in DOMAIN files : OutOfScope(p)) =>
          /\ pc' = "return"
          /\ result' = "true"
          /\ UNCHANGED fsvars]_vars

(* a real organize_files call returned at once on an organized directory:   *)
(* a hidden file directly in it, a file in a category folder, and a pending *)
(* log                                                                      *)
C19_Witness ==
    /\ pc = "return" /\ op = "organize" /\ result = "true" /\ ~dry_run
    /\ sidecar.exists /\ sidecar.moves # <<>>
    /\ \E p \in DOMAIN files : p.dir = ROOT /\ IsHidden(p.name)
    /\ \E p \in DOMAIN files : p.dir # ROOT

(* a step of an organize_files call *)
OrganizeCallStep ==
    \/ pc = "idle" /\ pc' # "idle" /\ op' = "organize"
    \/ pc # "idle" /\ op = "organize"

(* what C20 says of the files out of scope and of the folders: no step of   *)
(* organize_files moves, removes or replaces a hidden file or a file in a   *)
(* sub-folder; a file that leaves its path was a non-hidden file directly   *)
(* in the target directory; no folder is removed.                           *)
OutOfScopeKept ==
    /\ \A p \in DOMAIN files :
          OutOfScope(p) => (Exists(files', p) /\ files'[p] = files[p])
    /\ \A p \in DOMAIN files :
          (~Exists(files', p) \/ files'[p] # files[p]) => (p.dir = ROOT /\ ~IsHidden(p.name))
    /\ dirs \subseteq dirs'

(* C20 as stated: across every step of organize_files the hidden files, the *)
(* files in sub-folders and the folders keep their path and content, and so *)
(* does the undo-log sidecar.                                               *)
C20_SidecarUntouched ==
    [][OrganizeCallStep => (OutOfScopeKept /\ sidecar' = sidecar)]_vars

(* C20 as amended: across every step of organize_files the hidden files,    *)
(* the files in sub-folders and the folders keep their path and content;    *)
(* the sidecar stays at its path, and its content changes only when a real  *)
(* run that moved at least one file writes its log after the loop.          *)
C20_OnlyRootFilesMove ==
    [][OrganizeCallStep =>
          /\ OutOfScopeKept
          /\ sidecar.exists => sidecar'.exists
          /\ sidecar' # sidecar =>
                (pc = "organize" /\ pc' = "idle" /\ ~dry_run /\ stats.moved > 0)]_vars

(* a real run has gone over all its entries and moved a file, while a       *)
(* hidden file is directly in the directory and a file moved by an earlier  *)
(* run is in a category folder                                              *)
C20_Witness ==
    /\ pc = "organize" /\ ~dry_run /\ idx > Len(queue)
    /\ run_log # <<>>
    /\ \E p \in DOMAIN files : p.dir = ROOT /\ IsHidden(p.name)
    /\ \E p \in DOMAIN files : p.dir # ROOT /\ \A i \in 1..Len(run_log) : run_log[i].dst # p

----------------------------------------------------------------------------
(* the undo records this run has appended so far, one per entry of run_log *)
RunRecord(k) == undo_data[Len(undo_data) - Len(run_log) + k]

(* label is what a first-match lookup of ext in the table gives *)
IsFirstMatch(table, ext, label) ==
    \/ \E i \in 1..Len(table) :
          /\ ext \in table[i].exts
          /\ \A j \in 1..(i - 1) : ext \notin table[j].exts
          /\ label = table[i].name
    \/ /\ \A i \in 1..Len(table) : ext \notin table[i].exts
       /\ label = "Others"

(* C21: in a real run by type every moved file that is neither suspicious  *)
(* nor a duplicate is filed under the first category, in the order of the  *)
(* table, that lists its lower-cased extension, and under "Others" when no *)
(* category lists it.  With only a.txt and b.jpg in the directory and no   *)
(* failure the run ends with Documents/a.txt and Images/b.jpg, moved = 2   *)
(* and errors = 0.                                                         *)
C21_TypeClassification ==
    /\ (op = "organize" /\ pc = "organize" /\ ~dry_run /\ organization_type = "type") =>
          \A k \in 1..Len(run_log) :
             LET r == RunRecord(k)
             IN  (~r.suspicious /\ ~r.duplicate) =>
                    /\ IsFirstMatch(file_categories, Lower(NameOf(run_log[k].file).ext), r.category)
                    /\ r.new_path.dir = r.category
    /\ (/\ op = "organize" /\ pc = "organize" /\ ~dry_run /\ organization_type = "type"
        /\ idx > Len(queue) /\ Range(queue) = {1, 7} /\ faults = 0) =>
          /\ files = (MkPath("Documents", NameOf(1)) :> 1) @@ (MkPath("Images", NameOf(7)) :> 7)
          /\ stats.moved = 2
          /\ stats.errors = 0

(* a real run by type over a.txt and b.jpg has finished its loop without   *)
(* a failure and moved both                                                *)
C21_Witness ==
    /\ op = "organize" /\ pc = "organize" /\ ~dry_run /\ organization_type = "type"
    /\ idx > Len(queue) /\ Range(queue) = {1, 7} /\ faults = 0
    /\ stats.moved = 2

(* C22: no extension is listed by two categories of the table, whether the *)
(* table is the built-in one, was loaded from the database or was changed  *)
(* by save_custom_category.                                                *)
C22_NoSharedExtension ==
    \A i, j \in 1..Len(file_categories) :
       i # j => file_categories[i].exts \cap file_categories[j].exts = {}

----------------------------------------------------------------------------
(* the file get_file_category was called for *)
Classified(otype) == op = "get_file_category" /\ organization_type = otype

(* C23: by size the bands are half-open: below 1048576 bytes "Small",      *)
(* from 1048576 to below 10485760 "Medium", from 10485760 to below         *)
(* 104857600 "Large", from 104857600 on "Very Large"; a file whose size    *)
(* cannot be read is "Unknown Size".                                       *)
C23_SizeBands ==
    Classified("size") =>
       LET a == Attr(queue[1])
       IN  IF ~a.stat_ok THEN result = "Unknown Size"
           ELSE /\ (a.size < 1048576) <=> (result = "Small (< 1MB)")
                /\ (1048576 <= a.size /\ a.size < 10485760) <=> (result = "Medium (1-10MB)")
                /\ (10485760 <= a.size /\ a.size < 104857600) <=> (result = "Large (10-100MB)")
                /\ (104857600 <= a.size) <=> (result = "Very Large (> 100MB)")

(* a file of exactly 104857600 bytes was classified by size *)
C23_Witness ==
    /\ Classified("size")
    /\ Attr(queue[1]).size = 104857600
    /\ result = "Very Large (> 100MB)"

(* C24, as claimed: by date the upper bounds are strict: an age below 7    *)
(* days is "This Week", from 7 to below 30 "This Month", from 30 to below  *)
(* 365 "This Year", from 365 on the year; exactly 7, 30 and 365 days fall  *)
(* in the older bucket.                                                    *)
C24_StrictAgeBounds ==
    Classified("date") =>
       LET a == Attr(queue[1])
       IN  IF ~a.stat_ok THEN result = "Unknown Date"
           ELSE /\ (a.age < 7) <=> (result = "This Week")
                /\ (7 <= a.age /\ a.age < 30) <=> (result = "This Month")
                /\ (30 <= a.age /\ a.age < 365) <=> (result = "This Year")
                /\ (365 <= a.age) <=> (result = a.year)

(* C24, amended: by date the upper bounds are inclusive: an age of at most *)
(* 7 days is "This Week", above 7 and at most 30 "This Month", above 30    *)
(* and at most 365 "This Year", above 365 the four-digit year; exactly 7,  *)
(* 30 and 365 days fall in the younger bucket; a file whose time cannot be *)
(* read is "Unknown Date".                                                 *)
C24_InclusiveAgeBounds ==
    Classified("date") =>
       LET a == Attr(queue[1])
       IN  IF ~a.stat_ok THEN result = "Unknown Date"
           ELSE /\ (a.age <= 7) <=> (result = "This Week")
                /\ (7 < a.age /\ a.age <= 30) <=> (result = "This Month")
                /\ (30 < a.age /\ a.age <= 365) <=> (result = "This Year")
                /\ (365 < a.age) <=> (result = a.year)

(* a file exactly 7 days old was classified by date *)
C24_Witness ==
    /\ Classified("date")
    /\ Attr(queue[1]).stat_ok
    /\ Attr(queue[1]).age = 7
    /\ result = "This Week"

(* the extension labels: the lower-cased extension without its dot *)
ExtensionLabels ==
    (".txt" :> "txt") @@ (".TXT" :> "txt") @@ (".jpg" :> "jpg") @@ (".JPG" :> "jpg") @@
    (".bat" :> "bat") @@ (".deb" :> "deb") @@ (".rpm" :> "rpm") @@ (".xyz" :> "xyz")

(* C25: get_file_category returns one label for every file under every    *)
(* mode and never fails: a category of the table or "Others" by type, a    *)
(* period, a year or "Unknown Date" by date, a band or "Unknown Size" by   *)
(* size, the lower-cased extension without its dot or "No Extension" by    *)
(* extension, and "Others" for any other mode.  The fallback label is      *)
(* returned exactly when no category lists the extension, the time or the  *)
(* size cannot be read, or the name has no extension.                      *)
C25_ClassifierTotal ==
    op = "get_file_category" =>
       LET a   == Attr(queue[1])
           ext == NameOf(queue[1]).ext
       IN  CASE organization_type = "type" ->
                  /\ result \in TableNames(file_categories) \cup {"Others"}
                  /\ (result = "Others") <=>
                        (\A i \in 1..Len(file_categories) : Lower(ext) \notin file_categories[i].exts)
             [] organization_type = "date" ->
                  /\ result \in {"This Week", "This Month", "This Year", "Unknown Date", a.year}
                  /\ (result = "Unknown Date") <=> ~a.stat_ok
             [] organization_type = "size" ->
                  /\ result \in {"Small (< 1MB)", "Medium (1-10MB)", "Large (10-100MB)",
                                  "Very Large (> 100MB)", "Unknown Size"}
                  /\ (result = "Unknown Size") <=> ~a.stat_ok
             [] organization_type = "extension" ->
                  IF ext = "" THEN result = "No Extension" ELSE result = ExtensionLabels[ext]
             [] OTHER -> result = "Others"

(* the time of a file could not be read and its label by date is the       *)
(* fallback                                                                *)
C25_Witness ==
    /\ Classified("date")
    /\ ~Attr(queue[1]).stat_ok
    /\ result = "Unknown Date"

----------------------------------------------------------------------------
(* C26: in a real organize_files run a step that moved no file adds no     *)
(* undo record, and a step that moved a file adds one record, for that     *)
(* file; after every step of the run each record the run has added names   *)
(* a new_path where the moved file is and an original_path where no file   *)
(* is.                                                                     *)
C26_RecordAfterMove ==
    [][RealOrganizeStep =>
          /\ IF files' = files
             THEN undo_data' = undo_data
             ELSE /\ Len(undo_data') = Len(undo_data) + 1
                  /\ SubSeq(undo_data', 1, Len(undo_data)) = undo_data
                  /\ Last(undo_data').original_path = RootPath(NameOf(queue[idx]))
          /\ Len(run_log') <= Len(undo_data')
          /\ \A k \in 1..Len(run_log') :
                LET r == undo_data'[Len(undo_data') - Len(run_log') + k]
                IN  /\ Exists(files', r.new_path)
                    /\ files'[r.new_path] = run_log'[k].file
                    /\ r.original_path = run_log'[k].src
                    /\ ~Exists(files', r.original_path)]_vars

(* a real run in which one move failed and a later one succeeded *)
C26_Witness ==
    /\ op = "organize" /\ pc = "organize" /\ ~dry_run
    /\ stats.errors > 0
    /\ run_log # <<>>
    /\ Last(undo_data).new_path = Last(run_log).dst
    /\ Exists(files, Last(undo_data).new_path)

----------------------------------------------------------------------------
----------------------------------------------------------------------------
(* the files that are somewhere under the target directory *)
FilesPresent(fs) == {fs[p] : p \in DOMAIN fs}

(* C28: a step of organize_files or of undo_organization (any step that is *)
(* not a change made from outside) keeps the number of files and every     *)
(* single file, changes no path that holds a file into holding another     *)
(* one, and moves at most one file, to a path where no file was.           *)
C28_NoFileLost ==
    [][(changes' = changes) =>
          /\ Cardinality(DOMAIN files') = Cardinality(DOMAIN files)
          /\ FilesPresent(files') = FilesPresent(files)
          /\ \A p \in DOMAIN files \cap DOMAIN files' : files'[p] = files[p]
          /\ Cardinality(DOMAIN files' \ DOMAIN files) <= 1]_vars

(* a real run has moved a file under another name than its own because     *)
(* its name was taken in the folder, and every file that ever arrived is    *)
(* still there                                                              *)
C28_Witness ==
    /\ op = "organize" /\ pc = "organize" /\ ~dry_run
    /\ \E k \in 1..Len(run_log) :
          /\ run_log[k].dst.name # NameOf(run_log[k].file)
          /\ Exists(files, MkPath(run_log[k].dst.dir, NameOf(run_log[k].file)))
    /\ FilesPresent(files) = arrived
    /\ Cardinality(DOMAIN files) = Cardinality(arrived)

----------------------------------------------------------------------------
(* the number of the first n entries of the list that are flagged *)
FlaggedUpTo(n) ==
    Cardinality({i \in 1..n : detect_suspicious_file(NameOf(queue[i]), Attr(queue[i]).size)})

(* C29: in a real organize_files run every entry passed counts as moved or *)
(* as an error, so that moved + errors is the length of the list when the  *)
(* call returns; moved grows exactly when the run appends an undo record;  *)
(* suspicious is the number of flagged entries passed, whether or not      *)
(* their move succeeded; the counters are returned as the loop left them.  *)
C29_CounterAccounting ==
    [][/\ RealOrganizeStep =>
              /\ stats'.moved + stats'.errors = idx
              /\ stats'.moved - stats.moved = Len(undo_data') - Len(undo_data)
              /\ stats'.moved - stats.moved \in {0, 1}
              /\ stats'.moved = Len(run_log')
              /\ stats'.suspicious = FlaggedUpTo(idx)
       /\ (op = "organize" /\ pc = "organize" /\ ~dry_run /\ pc' = "idle") =>
              /\ stats.moved + stats.errors = Len(queue)
              /\ stats.suspicious = FlaggedUpTo(Len(queue))
              /\ stats' = stats]_vars

(* a real run over several files is at its end: the suspicious file could  *)
(* not be moved and is counted as suspicious and as an error, another file *)
(* was moved                                                               *)
C29_Witness ==
    /\ op = "organize" /\ pc = "organize" /\ ~dry_run
    /\ idx > Len(queue)
    /\ 4 \in Range(queue)
    /\ Exists(files, RootPath(NameOf(4)))
    /\ stats.suspicious = 1
    /\ stats.errors = 1
    /\ stats.moved >= 1

----------------------------------------------------------------------------
(* C30: undo_organization changes the sidecar at one point only: at the    *)
(* end of a real run that restored at least one entry, where it deletes    *)
(* it.  A real run that restored no entry ends with the sidecar in place   *)
(* and with the content it had.                                            *)
C30_SidecarKeptWithoutRestore ==
    [][/\ (pc = "idle" /\ calls' = calls + 1 /\ op' = "undo") => sidecar' = sidecar
       /\ (op = "undo" /\ pc \in {"undo", "return"}) =>
              /\ (sidecar' # sidecar) =>
                     /\ pc = "undo" /\ pc' = "idle"
                     /\ ~dry_run
                     /\ undo_stats.moved > 0
                     /\ ~sidecar'.exists
              /\ (pc = "undo" /\ pc' = "idle" /\ ~dry_run /\ undo_stats.moved = 0) =>
                     /\ sidecar.exists
                     /\ sidecar' = sidecar]_vars

(* a real undo run has passed every entry of a log and restored none *)
C30_Witness ==
    /\ op = "undo" /\ pc = "undo" /\ ~dry_run
    /\ undo_data # <<>>
    /\ idx > Len(undo_data)
    /\ undo_stats.moved = 0
    /\ sidecar.exists
    /\ sidecar.moves = undo_data

====
